---- MODULE Spec2Model ----
(***************************************************************************)
(* Model of the incident normalisation and baseline diff of the AppCat     *)
(* validation harness (package testcase): TestCase.ParseAppCatOutput and   *)
(* TestCase.RunValidate.  Strings are sequences of one-character strings,  *)
(* so that substring search, slicing and formatting are computed.          *)
(***************************************************************************)
EXTENDS Integers, Sequences, FiniteSets, TLC

VARIABLES tcName, baselineFile, outputFile, pc, parsed,
          baselineIncidents, incidents, result, resultDetails, err,
          actionList, appcat, analyzed, runResult,
          testCases, tcIndex, fullResults, fullIncidentsCount, fullIncidentDetails,
          report, summaryFile, runResults

(* the test case's action list, the outcome of running appcat.exe for it,  *)
(* what RunAnalyze returned and wrote, what Run returned                   *)
runVars == <<actionList, appcat, analyzed, runResult>>

(* main's test cases, the index of the next one, its result maps, the      *)
(* results file and the summary file it writes; runResults is the history  *)
(* of what the Run of each test case returned, in the order of the returns *)
mainVars == <<testCases, tcIndex, fullResults, fullIncidentsCount, fullIncidentDetails,
              report, summaryFile, runResults>>

(* package logger: the global logger, its sync.Once and its log file; the  *)
(* position of each goroutine in a call of Init or Get; bodyRuns counts    *)
(* the runs of the function given to once.Do                               *)
VARIABLES logger, once, logFile, goroutines, bodyRuns

loggerVars == <<logger, once, logFile, goroutines, bodyRuns>>

vars == <<tcName, baselineFile, outputFile, pc, parsed,
          baselineIncidents, incidents, result, resultDetails, err,
          runVars, mainVars, loggerVars>>

(***************************************************************************)
(* Bounds of the test data: the output.yaml files of the baseline folder   *)
(* and of the appcat_output folder of one test case hold together at most  *)
(* MaxRuleSets rule-sets and at most MaxIncidents incident records.        *)
(***************************************************************************)
MaxRuleSets == 2
MaxIncidents == 2

(***************************************************************************)
(* Test data the documents are drawn from.                                 *)
(***************************************************************************)
TcNames == { <<"p", "j">> }
RuleSetNames == { <<"s">> }
RuleNames == { <<"r">>, <<"q">> }

IncidentPool ==
  { [Uri |-> <<"a", "/", "p", "j", "/", "p", "j", "/", "x">>, Message |-> <<"m">>,
     CodeSnip |-> "c", Variables |-> "nil", LineNumber |-> 10],
    [Uri |-> <<"b", "/", "p", "j", "/", "p", "j", "/", "x">>, Message |-> <<"m">>,
     CodeSnip |-> "d", Variables |-> "v", LineNumber |-> 10],
    [Uri |-> <<"a", "/", "p", "j", "/", "p", "j", "/", "x">>, Message |-> <<"n">>,
     CodeSnip |-> "c", Variables |-> "nil", LineNumber |-> 10],
    [Uri |-> <<"a", "/", "p", "/", "y">>, Message |-> <<"m">>,
     CodeSnip |-> "c", Variables |-> "nil", LineNumber |-> 0] }

ListsOfLen(k) == [1..k -> IncidentPool]

(* map[string]Violation holding k incidents in all *)
RECURSIVE ViolationsWith(_, _)
ViolationsWith(names, k) ==
  IF names = {} THEN (IF k = 0 THEN { <<>> } ELSE {})
  ELSE LET x == CHOOSE n \in names : TRUE
           others == names \ {x}
       IN  ViolationsWith(others, k)
           \cup UNION { { (x :> l) @@ rest : l \in ListsOfLen(j),
                                              rest \in ViolationsWith(others, k - j) }
                        : j \in 1..k }

(* a violation with an empty incident list *)
EmptyViolations == { (<<"r">> :> <<>>) }

RuleSetsWith(k) ==
  { [Name |-> n, Violations |-> v] :
      n \in RuleSetNames,
      v \in ViolationsWith(RuleNames, k) \cup (IF k = 0 THEN EmptyViolations ELSE {}) }

(* the sequences of r rule-sets holding at most n incidents *)
RECURSIVE RuleSetSeqs(_, _)
RuleSetSeqs(r, n) ==
  IF r = 0 THEN { <<>> }
  ELSE UNION { { <<rs>> \o d : rs \in RuleSetsWith(k), d \in RuleSetSeqs(r - 1, n - k) }
               : k \in 0..n }

FileStatus == { "ok", "absent", "unreadable", "malformed" }

(***************************************************************************)
(* Library functions the code calls, computed as they compute.             *)
(***************************************************************************)

(* strings.Index(s, substr): the 0-based index of the first occurrence of  *)
(* substr in s, -1 when there is none.                                     *)
RECURSIVE IndexFrom(_, _, _)
IndexFrom(s, substr, i) ==
  IF i + Len(substr) > Len(s) THEN -1
  ELSE IF SubSeq(s, i + 1, i + Len(substr)) = substr THEN i
  ELSE IndexFrom(s, substr, i + 1)

Index(s, substr) == IndexFrom(s, substr, 0)

(* the slice s[i:] *)
SliceFrom(s, i) == SubSeq(s, i + 1, Len(s))

Digit == <<"0", "1", "2", "3", "4", "5", "6", "7", "8", "9">>

(* the verb %d of fmt.Sprintf *)
RECURSIVE FormatUint(_)
FormatUint(n) ==
  IF n < 10 THEN <<Digit[n + 1]>>
  ELSE FormatUint(n \div 10) \o <<Digit[(n % 10) + 1]>>

FormatInt(n) == IF n < 0 THEN <<"-">> \o FormatUint(0 - n) ELSE FormatUint(n)

(* m[k] = v and m[k]++ on a Go map *)
Put(m, k, v) == IF k \in DOMAIN m THEN [m EXCEPT ![k] = v] ELSE m @@ (k :> v)

Increment(m, k) == IF k \in DOMAIN m THEN [m EXCEPT ![k] = @ + 1] ELSE m @@ (k :> 1)

(* the orders in which a range statement may visit the keys of a map *)
RECURSIVE RangeOrders(_)
RangeOrders(S) ==
  IF S = {} THEN { <<>> }
  ELSE UNION { { <<x>> \o p : p \in RangeOrders(S \ {x}) } : x \in S }

(***************************************************************************)
(* TestCase.ParseAppCatOutput                                              *)
(***************************************************************************)

NewValidateIncident(rulesetName, ruleName, incident) ==
  [RuleSet |-> rulesetName, Rule |-> ruleName, Uri |-> incident.Uri,
   CodeSnip |-> incident.CodeSnip, Message |-> incident.Message,
   LineNumber |-> incident.LineNumber, Variables |-> incident.Variables]

(* mutants of TempPath: the last occurrence instead of the first; the    *)
(* project name cut off as well                                            *)
RECURSIVE LastIndexFrom(_, _, _)
LastIndexFrom(s, substr, i) ==
  IF i < 0 THEN -1
  ELSE IF SubSeq(s, i + 1, i + Len(substr)) = substr THEN i
  ELSE LastIndexFrom(s, substr, i - 1)

TempPathLastIndex(uri, name) ==
  LET startIndex == LastIndexFrom(uri, name, Len(uri) - Len(name))
  IN  IF startIndex # -1 THEN SliceFrom(uri, startIndex) ELSE uri

TempPathAfterName(uri, name) ==
  LET startIndex == Index(uri, name)
  IN  IF startIndex # -1 THEN SliceFrom(uri, startIndex + Len(name)) ELSE uri

(* mutant of TempPath: the uri is not cut at all *)
TempPathRaw(uri, name) == uri

(* tempPath: the uri from the first occurrence of tc.Name on, tc.Name      *)
(* included; the uri itself when tc.Name does not occur                    *)
TempPath(uri, name) ==
  LET startIndex == Index(uri, name)
  IN  IF startIndex # -1 THEN SliceFrom(uri, startIndex) ELSE uri

(* fmt.Sprintf("%s-%s-%s-%d", RuleSet, Rule, tempPath, LineNumber) *)
IncidentKey(vIncident, tempPath) ==
  vIncident.RuleSet \o <<"-">> \o vIncident.Rule \o <<"-">> \o tempPath
    \o <<"-">> \o FormatInt(vIncident.LineNumber)

(* mutant of CountIncident: the rule's count is set, not incremented *)
CountIncidentSet(st, ruleName) ==
  [st EXCEPT !.incidentsCount = @ + 1,
             !.ruleIncidentDetails = Put(@, ruleName, 1)]

(* incidentsCount++ ; ruleIncidentDetails[ruleName]++ *)
CountIncident(st, ruleName) ==
  [st EXCEPT !.incidentsCount = @ + 1,
             !.ruleIncidentDetails = Increment(@, ruleName)]

(* mutant of InsertIncident: a later incident replaces the stored one *)
InsertIncidentOverwrite(st, key, vIncident) ==
  IF key \notin DOMAIN st.incidentsDetails
    THEN [st EXCEPT !.incidentsDetails = @ @@ (key :> vIncident)]
    ELSE [st EXCEPT !.incidentsDetails = Put(@, key, vIncident),
                    !.duplicates = Append(@, key)]

(* mutant of InsertIncident: a repeated key is dropped without an event *)
InsertIncidentSilent(st, key, vIncident) ==
  IF key \notin DOMAIN st.incidentsDetails
    THEN [st EXCEPT !.incidentsDetails = @ @@ (key :> vIncident)]
    ELSE st

(* if _, exists := incidentsDetails[key]; !exists { ... } else { log } *)
InsertIncident(st, key, vIncident) ==
  IF key \notin DOMAIN st.incidentsDetails
    THEN [st EXCEPT !.incidentsDetails = @ @@ (key :> vIncident)]
    ELSE [st EXCEPT !.duplicates = Append(@, key)]

(* if presistPath != "" { write <ruleName>_<i>.incident } *)
PersistIncident(st, presistPath, ruleName, i, vIncident) ==
  IF presistPath # ""
    THEN [st EXCEPT !.written = Put(@, <<ruleName, i>>, vIncident)]
    ELSE st

(* the body of the loop over violation.Incidents; i is 0-based *)
ProcessIncident(st, name, presistPath, rulesetName, ruleName, i, incident) ==
  LET vIncident == NewValidateIncident(rulesetName, ruleName, incident)
      tempPath  == TempPath(vIncident.Uri, name)
      key       == IncidentKey(vIncident, tempPath)
      counted   == CountIncident(st, ruleName)
      logged    == [counted EXCEPT !.visited =
                      Append(@, [vIncident |-> vIncident, tempPath |-> tempPath,
                                 key |-> key])]
  IN  PersistIncident(InsertIncident(logged, key, vIncident),
                      presistPath, ruleName, i, vIncident)

(* mutant of RangeIncidentList: a rule with an empty list gets a count of 0 *)
RECURSIVE RangeIncidentListTouch(_, _, _, _, _, _, _)
RangeIncidentListTouch(st, name, presistPath, rulesetName, ruleName, list, i) ==
  IF list = <<>>
    THEN [st EXCEPT !.ruleIncidentDetails =
                      IF ruleName \in DOMAIN @ THEN @ ELSE Put(@, ruleName, 0)]
  ELSE IF i >= Len(list) THEN st
  ELSE RangeIncidentListTouch(
         ProcessIncident(st, name, presistPath, rulesetName, ruleName, i, list[i + 1]),
         name, presistPath, rulesetName, ruleName, list, i + 1)

RECURSIVE RangeIncidentList(_, _, _, _, _, _, _)
RangeIncidentList(st, name, presistPath, rulesetName, ruleName, list, i) ==
  IF i >= Len(list) THEN st
  ELSE RangeIncidentList(
         ProcessIncident(st, name, presistPath, rulesetName, ruleName, i, list[i + 1]),
         name, presistPath, rulesetName, ruleName, list, i + 1)

(* mutant of RangeViolations: only the rule visited first is processed *)
RangeViolationsFirstOnly(st, name, presistPath, section, ruleOrder) ==
  IF ruleOrder = <<>> THEN st
  ELSE RangeIncidentList(st, name, presistPath, section.Name, Head(ruleOrder),
                         section.Violations[Head(ruleOrder)], 0)

(* the loop over section.Violations, visited in the order ruleOrder *)
RECURSIVE RangeViolations(_, _, _, _, _)
RangeViolations(st, name, presistPath, section, ruleOrder) ==
  IF ruleOrder = <<>> THEN st
  ELSE RangeViolations(
         RangeIncidentList(st, name, presistPath, section.Name, Head(ruleOrder),
                           section.Violations[Head(ruleOrder)], 0),
         name, presistPath, section, Tail(ruleOrder))

(* the loop over yamlContent, in document order *)
RECURSIVE RangeSections(_, _, _, _, _, _)
RangeSections(st, name, presistPath, yamlContent, orders, si) ==
  IF si > Len(yamlContent) THEN st
  ELSE RangeSections(
         RangeViolations(st, name, presistPath, yamlContent[si], orders[si]),
         name, presistPath, yamlContent, orders, si + 1)

(* one range order for the violations map of every rule-set of a document *)
ViolationOrders(yamlContent) ==
  { o \in [1..Len(yamlContent) ->
             UNION { RangeOrders(DOMAIN yamlContent[si].Violations) :
                       si \in 1..Len(yamlContent) }] :
      \A si \in 1..Len(yamlContent) :
        o[si] \in RangeOrders(DOMAIN yamlContent[si].Violations) }

(* incidentsCount := 0 and the three empty collections; visited is the     *)
(* sequence of the loop's iterations, duplicates the duplicate log lines,  *)
(* written the incident files on disk                                      *)
ParseStart ==
  [incidentsCount |-> 0, ruleIncidentDetails |-> <<>>, incidentsDetails |-> <<>>,
   visited |-> <<>>, duplicates |-> <<>>, written |-> <<>>,
   exited |-> FALSE, err |-> "nil"]

(* What a call returns: logger.Fatalf ends the process (os.Exit(1)) when   *)
(* output.yaml is absent or is not the YAML of a []RuleSet; otherwise the  *)
(* three results with a nil error.                                         *)
ParseAppCatOutput(file, name, presistPath, orders) ==
  IF file.status # "ok"
    THEN [ParseStart EXCEPT !.exited = TRUE]
    ELSE RangeSections(ParseStart, name, presistPath, file.content, orders, 1)

(***************************************************************************)
(* TestCase.RunValidate                                                    *)
(***************************************************************************)

NewTag == "[NEW] : "
WrongTag == "[WRONG] :"
MissTag == "[MISS]: "

(* mutants of ValidateIncidentStep: a new key reported under the tag of  *)
(* a missing one; the code snippet compared as well; the message test     *)
(* inverted                                                               *)
ValidateIncidentStepMissTag(st, key, cur, base) ==
  IF key \notin DOMAIN base
    THEN [result |-> FALSE,
          resultDetails |-> Put(st.resultDetails, key, <<MissTag>> \o key)]
  ELSE IF cur[key].Message # base[key].Message
    THEN [result |-> FALSE,
          resultDetails |-> Put(st.resultDetails, key,
             <<WrongTag>> \o key \o <<" message mismatch: ">> \o cur[key].Message
               \o <<" != ">> \o base[key].Message)]
  ELSE st

ValidateIncidentStepCodeSnip(st, key, cur, base) ==
  IF key \notin DOMAIN base
    THEN [result |-> FALSE,
          resultDetails |-> Put(st.resultDetails, key, <<NewTag>> \o key)]
  ELSE IF cur[key].Message # base[key].Message \/ cur[key].CodeSnip # base[key].CodeSnip
    THEN [result |-> FALSE,
          resultDetails |-> Put(st.resultDetails, key,
             <<WrongTag>> \o key \o <<" message mismatch: ">> \o cur[key].Message
               \o <<" != ">> \o base[key].Message)]
  ELSE st

ValidateIncidentStepInverted(st, key, cur, base) ==
  IF key \notin DOMAIN base
    THEN [result |-> FALSE,
          resultDetails |-> Put(st.resultDetails, key, <<NewTag>> \o key)]
  ELSE IF cur[key].Message = base[key].Message
    THEN [result |-> FALSE,
          resultDetails |-> Put(st.resultDetails, key,
             <<WrongTag>> \o key \o <<" message mismatch: ">> \o cur[key].Message
               \o <<" != ">> \o base[key].Message)]
  ELSE st

(* the body of the loop over incidents *)
ValidateIncidentStep(st, key, cur, base) ==
  IF key \notin DOMAIN base
    THEN [result |-> FALSE,
          resultDetails |-> Put(st.resultDetails, key, <<NewTag>> \o key)]
  ELSE IF cur[key].Message # base[key].Message
    THEN [result |-> FALSE,
          resultDetails |-> Put(st.resultDetails, key,
             <<WrongTag>> \o key \o <<" message mismatch: ">> \o cur[key].Message
               \o <<" != ">> \o base[key].Message)]
  ELSE st

(* mutants of ValidateBaselineStep: every baseline key reported; result  *)
(* left as it was; nothing reported                                       *)
ValidateBaselineStepAll(st, key, cur) ==
  [result |-> FALSE,
   resultDetails |-> Put(st.resultDetails, key, <<MissTag>> \o key)]

ValidateBaselineStepKeepResult(st, key, cur) ==
  IF key \notin DOMAIN cur
    THEN [result |-> st.result,
          resultDetails |-> Put(st.resultDetails, key, <<MissTag>> \o key)]
    ELSE st

ValidateBaselineStepNone(st, key, cur) == st

(* the body of the loop over baselineIncidents *)
ValidateBaselineStep(st, key, cur) ==
  IF key \notin DOMAIN cur
    THEN [result |-> FALSE,
          resultDetails |-> Put(st.resultDetails, key, <<MissTag>> \o key)]
    ELSE st

(* mutant of RangeIncidents: the loop breaks at the first mismatch *)
RECURSIVE RangeIncidentsBreak(_, _, _, _)
RangeIncidentsBreak(st, order, cur, base) ==
  IF order = <<>> \/ ~st.result THEN st
  ELSE RangeIncidentsBreak(ValidateIncidentStep(st, Head(order), cur, base),
                           Tail(order), cur, base)

RECURSIVE RangeIncidents(_, _, _, _)
RangeIncidents(st, order, cur, base) ==
  IF order = <<>> THEN st
  ELSE RangeIncidents(ValidateIncidentStep(st, Head(order), cur, base),
                      Tail(order), cur, base)

(* mutant of RangeBaselineIncidents: the loop ends after its first key *)
RangeBaselineIncidentsOnce(st, order, cur) ==
  IF order = <<>> THEN st
  ELSE ValidateBaselineStep(st, Head(order), cur)

RECURSIVE RangeBaselineIncidents(_, _, _)
RangeBaselineIncidents(st, order, cur) ==
  IF order = <<>> THEN st
  ELSE RangeBaselineIncidents(ValidateBaselineStep(st, Head(order), cur),
                              Tail(order), cur)

(* result := true; resultDetails := {}; the two loops, each in a range order *)
Validate(cur, base, order, baselineOrder) ==
  RangeBaselineIncidents(
    RangeIncidents([result |-> TRUE, resultDetails |-> <<>>], order, cur, base),
    baselineOrder, cur)

(* mutant of ValidateReturn: a mismatch is returned as an error *)
ValidateReturnMismatchError(st) ==
  [result |-> st.result, resultDetails |-> st.resultDetails,
   err |-> IF st.result THEN "nil" ELSE "mismatch"]

(* return result, resultDetails, nil *)
ValidateReturn(st) ==
  [result |-> st.result, resultDetails |-> st.resultDetails, err |-> "nil"]

(***************************************************************************)
(* TestCase.Run and main: values before a call                             *)
(***************************************************************************)

ActionRun == "run"

ActionAnalyze == "analyze"

ActionValidate == "validate"

(* what RunAnalyze has returned and written: nothing yet *)
AnalyzeStart ==
  [totalIncidents |-> 0, rulesDetails |-> <<>>, err |-> "nil", written |-> <<>>,
   summary |-> "none"]

(* the error a Run returns is the sequence of its text; this is nil *)
NoError == <<>>

(* what Run has returned: nothing yet *)
RunStart == [message |-> <<>>, err |-> NoError]

(* RunValidate called on its own, outside Run and outside main's loop *)
NoRun ==
  /\ actionList = {ActionValidate}
  /\ appcat = "ok"
  /\ analyzed = AnalyzeStart
  /\ runResult = RunStart

(* goroutines that call package logger, and the calls each of them makes *)
MaxGoroutines == 2

MaxCalls == 3

Goroutines == 1..MaxGoroutines

Idle == [at |-> "idle", err |-> "nil", got |-> "none", afterNilInit |-> FALSE,
         initNil |-> FALSE, calls |-> 0]

(* after main's logger.Init has returned nil on its first call *)
LoggerReady ==
  /\ logger = "set"
  /\ once = [done |-> TRUE, m |-> 0]
  /\ logFile = "open"
  /\ goroutines = [g \in Goroutines |-> Idle]
  /\ bodyRuns = 1

NoMain ==
  /\ testCases = <<>>
  /\ tcIndex = 0
  /\ fullResults = <<>>
  /\ fullIncidentsCount = 0
  /\ fullIncidentDetails = <<>>
  /\ report = "none"
  /\ summaryFile = "none"
  /\ runResults = <<>>

(***************************************************************************)
(* The state machine: one test case whose RunValidate is called.           *)
(***************************************************************************)

(* The two output.yaml files before RunValidate is called: a sequence of   *)
(* rule-sets divided between the baseline and the analyzer output, or one  *)
(* of the two files absent, unreadable or malformed beside a readable other.           *)
Init ==
  /\ tcName \in TcNames
  /\ \E r \in 0..MaxRuleSets :
       \E d \in RuleSetSeqs(r, MaxIncidents) :
         \E i \in 0..r :
           \/ /\ baselineFile = [status |-> "ok", content |-> SubSeq(d, 1, i)]
              /\ outputFile = [status |-> "ok", content |-> SubSeq(d, i + 1, r)]
           \/ /\ i = r
              /\ \E st \in FileStatus \ {"ok"} :
                   \/ /\ baselineFile = [status |-> st, content |-> <<>>]
                      /\ outputFile = [status |-> "ok", content |-> d]
                   \/ /\ baselineFile = [status |-> "ok", content |-> d]
                      /\ outputFile = [status |-> st, content |-> <<>>]
  /\ pc = "RunValidate"
  /\ parsed = ParseStart
  /\ baselineIncidents = <<>>
  /\ incidents = <<>>
  /\ result = TRUE
  /\ resultDetails = <<>>
  /\ err = "nil"
  /\ NoRun
  /\ NoMain
  /\ LoggerReady

(* The two files hold the same finding under two workspace roots: each one *)
(* rule-set with one rule and one incident, at root + tc.Name + rest.      *)
Roots ==
  { <<>>, <<"a", "/">>, <<"b", "/">>, <<"p">>, <<"a", "/", "p", "j", "/">>,
    <<"p", "j", "-", "w", "/">> }

Rests == { <<>>, <<"/", "x">> }

Messages == { <<"m">>, <<"n">> }

RootedDocument(root, name, rest, message) ==
  << [Name |-> <<"s">>,
      Violations |-> (<<"r">> :> << [Uri |-> root \o name \o rest, Message |-> message,
                                     CodeSnip |-> "c", Variables |-> "nil",
                                     LineNumber |-> 10] >>)] >>

InitRoots ==
  /\ tcName \in TcNames
  /\ \E root1 \in Roots, root2 \in Roots, rest \in Rests, message \in Messages :
       /\ baselineFile = [status |-> "ok",
                          content |-> RootedDocument(root1, tcName, rest, message)]
       /\ outputFile = [status |-> "ok",
                        content |-> RootedDocument(root2, tcName, rest, <<"m">>)]
  /\ pc = "RunValidate"
  /\ parsed = ParseStart
  /\ baselineIncidents = <<>>
  /\ incidents = <<>>
  /\ result = TRUE
  /\ resultDetails = <<>>
  /\ err = "nil"
  /\ NoRun
  /\ NoMain
  /\ LoggerReady

(* Rule names and uris that hold the "-" the key is joined with: one      *)
(* rule-set whose violations map has one or both of the rules r and r-q,   *)
(* each with one incident at y or at q-y.                                  *)
CollideRuleNames == { <<"r">>, <<"r", "-", "q">> }

CollideIncidents ==
  { [Uri |-> uri, Message |-> message, CodeSnip |-> "c", Variables |-> "nil",
     LineNumber |-> 0] :
      uri \in { <<"y">>, <<"q", "-", "y">> }, message \in Messages }

CollideViolations ==
  UNION { [T -> { <<incident>> : incident \in CollideIncidents }] :
            T \in (SUBSET CollideRuleNames) \ {{}} }

CollideDocuments ==
  { << [Name |-> <<"s">>, Violations |-> violations] >> :
      violations \in CollideViolations }

InitCollide ==
  /\ tcName \in TcNames
  /\ \E d1 \in CollideDocuments, d2 \in CollideDocuments :
       /\ baselineFile = [status |-> "ok", content |-> d1]
       /\ outputFile = [status |-> "ok", content |-> d2]
  /\ pc = "RunValidate"
  /\ parsed = ParseStart
  /\ baselineIncidents = <<>>
  /\ incidents = <<>>
  /\ result = TRUE
  /\ resultDetails = <<>>
  /\ err = "nil"
  /\ NoRun
  /\ NoMain
  /\ LoggerReady

(* baselineIncidents, _, _, err := tc.ParseAppCatOutput(tc.BaseLineFolder, "") *)
ParseBaseline ==
  /\ pc = "RunValidate"
  /\ \E orders \in ViolationOrders(baselineFile.content) :
       LET r == ParseAppCatOutput(baselineFile, tcName, "", orders)
       IN  IF r.exited
             THEN /\ pc' = "exited"
                  /\ UNCHANGED <<parsed, baselineIncidents>>
             ELSE /\ pc' = "baselineParsed"
                  /\ parsed' = r
                  /\ baselineIncidents' = r.incidentsDetails
  /\ UNCHANGED <<tcName, baselineFile, outputFile, incidents, result, resultDetails,
                 err, runVars, mainVars>>
  /\ UNCHANGED loggerVars

(* incidents, _, _, err := tc.ParseAppCatOutput(tc.getAppcatOutputFolder(), "") *)
ParseOutput ==
  /\ pc = "baselineParsed"
  /\ \E orders \in ViolationOrders(outputFile.content) :
       LET r == ParseAppCatOutput(outputFile, tcName, "", orders)
       IN  IF r.exited
             THEN /\ pc' = "exited"
                  /\ UNCHANGED <<parsed, incidents>>
             ELSE /\ pc' = "outputParsed"
                  /\ parsed' = r
                  /\ incidents' = r.incidentsDetails
  /\ UNCHANGED <<tcName, baselineFile, outputFile, baselineIncidents, result,
                 resultDetails, err, runVars, mainVars>>
  /\ UNCHANGED loggerVars

(* the two validation loops and the return of RunValidate *)
ValidateIncidents ==
  /\ pc = "outputParsed"
  /\ \E order \in RangeOrders(DOMAIN incidents) :
       \E baselineOrder \in RangeOrders(DOMAIN baselineIncidents) :
         LET st == ValidateReturn(
                     Validate(incidents, baselineIncidents, order, baselineOrder))
         IN  /\ result' = st.result
             /\ resultDetails' = st.resultDetails
             /\ err' = st.err
  /\ pc' = "returned"
  /\ UNCHANGED <<tcName, baselineFile, outputFile, parsed, baselineIncidents, incidents,
                 runVars, mainVars>>
  /\ UNCHANGED loggerVars

Next == ParseBaseline \/ ParseOutput \/ ValidateIncidents

Spec == Init /\ [][Next]_vars

SpecRoots == InitRoots /\ [][Next]_vars

SpecCollide == InitCollide /\ [][Next]_vars

(* The text of an output.yaml whose incidents have a lineNumber that is an *)
(* integer, is absent, or is a scalar that is no integer: one rule-set s   *)
(* with the rule r and one or two incidents.                               *)
RawLineNumbers ==
  { [kind |-> "int", value |-> 10], [kind |-> "int", value |-> 0],
    [kind |-> "absent", value |-> 0], [kind |-> "text", value |-> 0] }

RawIncidents ==
  { [Uri |-> <<"a", "/", "p", "j", "/", "x">>, Message |-> message, CodeSnip |-> "c",
     Variables |-> "nil", LineNumber |-> line] :
      message \in Messages, line \in RawLineNumbers }

RawDocuments ==
  { << [Name |-> <<"s">>, Violations |-> (<<"r">> :> list)] >> :
      list \in { <<i1>> : i1 \in RawIncidents }
                 \cup { <<i1, i2>> : i1 \in RawIncidents, i2 \in RawIncidents } }

(* yaml.Unmarshal into an Incident: LineNumber int takes the integer, and  *)
(* keeps its zero value when the field is absent                           *)
UnmarshalIncident(raw) ==
  [Uri |-> raw.Uri, Message |-> raw.Message, CodeSnip |-> raw.CodeSnip,
   Variables |-> raw.Variables, LineNumber |-> raw.LineNumber.value]

(* yaml.Unmarshal(data, &yamlContent): an error when a lineNumber cannot   *)
(* be decoded into an int, and output.yaml is then not the YAML of a       *)
(* []RuleSet                                                               *)
Unmarshal(raw) ==
  IF \E si \in 1..Len(raw) : \E x \in DOMAIN raw[si].Violations :
       \E i \in 1..Len(raw[si].Violations[x]) :
         raw[si].Violations[x][i].LineNumber.kind = "text"
    THEN [status |-> "malformed", content |-> <<>>, raw |-> raw]
    ELSE [status |-> "ok",
          content |-> [si \in 1..Len(raw) |->
                         [Name |-> raw[si].Name,
                          Violations |->
                            [x \in DOMAIN raw[si].Violations |->
                               [i \in 1..Len(raw[si].Violations[x]) |->
                                  UnmarshalIncident(raw[si].Violations[x][i])]]]],
          raw |-> raw]

InitLines ==
  /\ tcName \in TcNames
  /\ \E raw \in RawDocuments \cup { <<>> } :
       /\ baselineFile = Unmarshal(raw)
       /\ baselineFile.status = "ok"
       /\ Len(raw) > 0 => Len(raw[1].Violations[<<"r">>]) = 1
  /\ \E raw \in RawDocuments : outputFile = Unmarshal(raw)
  /\ pc = "RunValidate"
  /\ parsed = ParseStart
  /\ baselineIncidents = <<>>
  /\ incidents = <<>>
  /\ result = TRUE
  /\ resultDetails = <<>>
  /\ err = "nil"
  /\ NoRun
  /\ NoMain
  /\ LoggerReady

SpecLines == InitLines /\ [][Next]_vars

(***************************************************************************)
(* TestCase.Run: the stages run, analyze, validate                         *)
(***************************************************************************)

AppCatOutcomes == { "ok", "noProjectFolder", "mkdirFailed", "cmdFailed" }

(* RunAppCat: logger.Fatalf ends the process when the project folder is    *)
(* missing, the output folder cannot be made or appcat.exe fails;          *)
(* otherwise tc.OutputFolder and a nil error.                              *)
RunAppCat(outcome) ==
  [exited |-> outcome # "ok", folder |-> "OutputFolder", err |-> "nil"]

(* the position of Run after the run stage and after the analyze stage *)
AfterRunAnalyze ==
  IF ActionValidate \in actionList THEN "RunValidate" ELSE "validateSkipped"

AfterRunAppCat ==
  IF ActionAnalyze \in actionList THEN "RunAnalyze" ELSE AfterRunAnalyze

(* if containsAction(tc.ActionList, ActionRun) { tc.RunAppCat() } *)
RunAppCatStage ==
  /\ pc = "Run"
  /\ IF ActionRun \in actionList /\ RunAppCat(appcat).exited
       THEN pc' = "exited"
       ELSE pc' = AfterRunAppCat
  /\ UNCHANGED <<tcName, baselineFile, outputFile, parsed, baselineIncidents, incidents,
                 result, resultDetails, err, runVars, mainVars>>
  /\ UNCHANGED loggerVars

(* the rows of incidents_summary.csv, the rules in a range order *)
RECURSIVE SummaryRows(_, _)
SummaryRows(rulesDetails, order) ==
  IF order = <<>> THEN <<>>
  ELSE << <<Head(order), rulesDetails[Head(order)]>> >>
         \o SummaryRows(rulesDetails, Tail(order))

(* RunAnalyze: logger.Fatalf ends the process when output.yaml is absent   *)
(* (the "return 0, nil, nil" behind it is never reached); otherwise the    *)
(* parse with the analysis folder as presistPath, the summary file, and    *)
(* the total, the rule counts and a nil error.                             *)
RunAnalyze(file, name, orders) ==
  IF file.status = "absent"
    THEN [AnalyzeStart EXCEPT !.err = "exited"]
    ELSE LET r == ParseAppCatOutput(file, name, "analysis_output", orders)
         IN  IF r.exited
               THEN [AnalyzeStart EXCEPT !.err = "exited"]
               ELSE [totalIncidents |-> r.incidentsCount,
                     rulesDetails |-> r.ruleIncidentDetails,
                     err |-> "nil", written |-> r.written, summary |-> "none"]

(* if containsAction(tc.ActionList, ActionAnalyze) { tc.RunAnalyze() } *)
RunAnalyzeStage ==
  /\ pc = "RunAnalyze"
  /\ \E orders \in ViolationOrders(outputFile.content) :
       LET r == RunAnalyze(outputFile, tcName, orders)
       IN  IF r.err = "exited"
             THEN /\ pc' = "exited"
                  /\ UNCHANGED analyzed
             ELSE /\ pc' = AfterRunAnalyze
                  /\ \E order \in RangeOrders(DOMAIN r.rulesDetails) :
                       analyzed' = [r EXCEPT !.summary =
                                      <<"Rule,Incidents">> \o SummaryRows(r.rulesDetails, order)]
  /\ UNCHANGED <<tcName, baselineFile, outputFile, parsed, baselineIncidents, incidents,
                 result, resultDetails, err, actionList, appcat, runResult, mainVars>>
  /\ UNCHANGED loggerVars

(* details += value + lineDelimiter, over caseResults in a range order *)
RECURSIVE Details(_, _)
Details(caseResults, order) ==
  IF order = <<>> THEN <<>>
  ELSE caseResults[Head(order)] \o <<"\n">> \o Details(caseResults, Tail(order))

(* fmt.Sprintf(ItemResultFormat.PASS, tc.Name) *)
PassMessage(name) == <<"- [x]", " <b>">> \o name \o <<"</b>.">>

(* fmt.Sprintf(ItemResultFormat.FAIL, tc.Name,                             *)
(*             fmt.Sprintf(ItemResultFormat.DETAILS, details))             *)
FailMessage(name, details) ==
  <<"- [ ] :x:", " <b>">> \o name \o <<"</b>. \n\n">>
    \o <<"  <details>\n  <summary> Details </summary>\n\n  ">> \o details
    \o <<"\n\n</details>">> \o <<"\n">>

(* mutant of RunReturn: the PASS result whatever the diff found *)
RunReturnAlwaysPass(at, name, caseResults, validateErr, order) ==
  IF at = "validateSkipped"
    THEN [message |-> <<"passed">>, err |-> NoError]
    ELSE [message |-> PassMessage(name), err |-> NoError]

(* what Run returns after the validate stage, and "passed" without one *)
RunReturn(at, name, caseResults, validateErr, order) ==
  IF at = "validateSkipped"
    THEN [message |-> <<"passed">>, err |-> NoError]
    ELSE IF validateErr # "nil"
           THEN [message |-> <<>>,
                 err |-> <<"error validating output for project ">> \o name
                           \o <<": ", validateErr>>]
           ELSE IF DOMAIN caseResults = {}
                  THEN [message |-> PassMessage(name), err |-> NoError]
                  ELSE [message |-> FailMessage(name, Details(caseResults, order)),
                        err |-> NoError]

RunResult ==
  /\ pc \in {"returned", "validateSkipped"}
  /\ \E order \in RangeOrders(DOMAIN resultDetails) :
       runResult' = RunReturn(pc, tcName, resultDetails, err, order)
  /\ pc' = "RunReturned"
  /\ UNCHANGED <<tcName, baselineFile, outputFile, parsed, baselineIncidents, incidents,
                 result, resultDetails, err, actionList, appcat, analyzed, mainVars>>
  /\ UNCHANGED loggerVars

(* the documents a test case can find at its baseline and output folders *)
FoundAt(message) ==
  [Uri |-> <<"a", "/", "p", "j", "/", "x">>, Message |-> message, CodeSnip |-> "c",
   Variables |-> "nil", LineNumber |-> 10]

TargetDocuments ==
  { <<>>,
    << [Name |-> <<"s">>, Violations |-> (<<"r">> :> << FoundAt(<<"m">>) >>)] >>,
    << [Name |-> <<"s">>, Violations |-> (<<"r">> :> << FoundAt(<<"n">>) >>)] >>,
    << [Name |-> <<"s">>,
        Violations |-> (<<"r">> :> << FoundAt(<<"m">>) >>)
                         @@ (<<"q">> :> << FoundAt(<<"m">>) >>)] >> }

BaselinePool ==
  { [status |-> "ok", content |-> d] :
      d \in { <<>>, << [Name |-> <<"s">>,
                        Violations |-> (<<"r">> :> << FoundAt(<<"m">>) >>)] >> } }
    \cup { [status |-> st, content |-> <<>>] : st \in {"absent", "malformed"} }

OutputPool ==
  { [status |-> "ok", content |-> d] : d \in TargetDocuments }
    \cup { [status |-> st, content |-> <<>>] : st \in {"absent", "malformed"} }

(* Run called for one test case with any action list *)
InitRun ==
  /\ tcName \in TcNames
  /\ baselineFile \in BaselinePool
  /\ outputFile \in OutputPool
  /\ pc = "Run"
  /\ parsed = ParseStart
  /\ baselineIncidents = <<>>
  /\ incidents = <<>>
  /\ result = TRUE
  /\ resultDetails = <<>>
  /\ err = "nil"
  /\ actionList \in SUBSET {ActionRun, ActionAnalyze, ActionValidate}
  /\ appcat \in AppCatOutcomes
  /\ analyzed = AnalyzeStart
  /\ runResult = RunStart
  /\ NoMain
  /\ LoggerReady

NextRun ==
  \/ RunAppCatStage
  \/ RunAnalyzeStage
  \/ ParseBaseline
  \/ ParseOutput
  \/ ValidateIncidents
  \/ RunResult

SpecRun == InitRun /\ [][NextRun]_vars

(* Analyzer outputs of one or two rule-sets named s or t, each with one    *)
(* rule, r or q, and one or two incidents: what RunAnalyze persists        *)
PersistRuleSets ==
  { [Name |-> n, Violations |-> v] :
      n \in { <<"s">>, <<"t">> },
      v \in { (<<"r">> :> << FoundAt(<<"m">>) >>),
              (<<"r">> :> << FoundAt(<<"m">>), FoundAt(<<"n">>) >>),
              (<<"q">> :> << FoundAt(<<"m">>) >>) } }

PersistDocuments ==
  { <<rs>> : rs \in PersistRuleSets }
    \cup { <<rs1, rs2>> : rs1 \in PersistRuleSets, rs2 \in PersistRuleSets }

(* Run called for one test case whose action list has the analyze stage *)
InitAnalyze ==
  /\ tcName \in TcNames
  /\ baselineFile \in { b \in BaselinePool : b.status = "ok" }
  /\ \E d \in PersistDocuments : outputFile = [status |-> "ok", content |-> d]
  /\ pc = "Run"
  /\ parsed = ParseStart
  /\ baselineIncidents = <<>>
  /\ incidents = <<>>
  /\ result = TRUE
  /\ resultDetails = <<>>
  /\ err = "nil"
  /\ actionList \in { {ActionAnalyze}, {ActionAnalyze, ActionValidate} }
  /\ appcat = "ok"
  /\ analyzed = AnalyzeStart
  /\ runResult = RunStart
  /\ NoMain
  /\ LoggerReady

SpecAnalyze == InitAnalyze /\ [][NextRun]_vars

(***************************************************************************)
(* main: the loop over the test cases and the results report               *)
(***************************************************************************)

MaxTargets == 2

(* the lines of the target projects list *)
TargetCatalog == << <<"p", "j">>, <<"k">>, <<"w">> >>

(* what a target finds on disk: the outcome of appcat.exe and the two      *)
(* output.yaml files; no output.yaml is written when appcat.exe fails      *)
TargetSetups ==
  { [appcat |-> "ok", baselineFile |-> b, outputFile |-> o] :
      b \in BaselinePool, o \in OutputPool }
    \cup { [appcat |-> a, baselineFile |-> [status |-> "ok", content |-> <<>>],
            outputFile |-> [status |-> "absent", content |-> <<>>]] :
             a \in AppCatOutcomes \ {"ok"} }

TestCasesOf(n) ==
  { [i \in 1..n |-> [Name |-> TargetCatalog[i], appcat |-> setup[i].appcat,
                     baselineFile |-> setup[i].baselineFile,
                     outputFile |-> setup[i].outputFile]] :
      setup \in [1..n -> TargetSetups] }

(* main before its loop over testCases *)
InitMain ==
  /\ \E n \in 0..MaxTargets :
       /\ n <= Len(TargetCatalog)
       /\ testCases \in TestCasesOf(n)
  /\ tcIndex = 1
  /\ fullResults = <<>>
  /\ fullIncidentsCount = 0
  /\ fullIncidentDetails = <<>>
  /\ report = "none"
  /\ summaryFile = "none"
  /\ runResults = <<>>
  /\ pc = "main"
  /\ actionList = {ActionRun, ActionValidate}
  /\ tcName = <<>>
  /\ appcat = "ok"
  /\ baselineFile = [status |-> "absent", content |-> <<>>]
  /\ outputFile = [status |-> "absent", content |-> <<>>]
  /\ parsed = ParseStart
  /\ baselineIncidents = <<>>
  /\ incidents = <<>>
  /\ result = TRUE
  /\ resultDetails = <<>>
  /\ err = "nil"
  /\ analyzed = AnalyzeStart
  /\ runResult = RunStart
  /\ LoggerReady

(* for _, testCase := range testCases { ... testCase.Run() *)
StartTestCase ==
  /\ pc = "main"
  /\ tcIndex \in 1..Len(testCases)
  /\ tcName' = testCases[tcIndex].Name
  /\ appcat' = testCases[tcIndex].appcat
  /\ baselineFile' = testCases[tcIndex].baselineFile
  /\ outputFile' = testCases[tcIndex].outputFile
  /\ parsed' = ParseStart
  /\ baselineIncidents' = <<>>
  /\ incidents' = <<>>
  /\ result' = TRUE
  /\ resultDetails' = <<>>
  /\ err' = "nil"
  /\ analyzed' = AnalyzeStart
  /\ runResult' = RunStart
  /\ pc' = "Run"
  /\ UNCHANGED <<actionList, mainVars>>
  /\ UNCHANGED loggerVars

(* if caseErr != nil { testResults[name] = "Error: ..." }                  *)
(* testResults[name] = result                                              *)
RecordTestResult(testResults, name, r) ==
  LET failed == IF r.err # NoError
                  THEN Put(testResults, name, <<"Error: ">> \o r.err)
                  ELSE testResults
  IN  Put(failed, name, r.message)

(* the rest of the loop body of the main whose Run has two results *)
RecordResult ==
  /\ pc = "RunReturned"
  /\ fullResults' = RecordTestResult(fullResults, tcName, runResult)
  /\ runResults' = Append(runResults, [name |-> tcName, returned |-> runResult])
  /\ tcIndex' = tcIndex + 1
  /\ pc' = "main"
  /\ UNCHANGED <<tcName, baselineFile, outputFile, parsed, baselineIncidents, incidents,
                 result, resultDetails, err, runVars, testCases, fullIncidentsCount,
                 fullIncidentDetails, report, summaryFile>>
  /\ UNCHANGED loggerVars

(* the lines of the results file: the header, then the results in a range  *)
(* order of the map                                                        *)
RECURSIVE ResultLines(_, _)
ResultLines(results, order) ==
  IF order = <<>> THEN <<>>
  ELSE <<results[Head(order)] \o <<"\n">>>> \o ResultLines(results, Tail(order))

(* os.Create of the results file (logger.Fatalf when it fails), the header *)
(* and one line for each result                                            *)
WriteReport ==
  /\ pc = "main"
  /\ tcIndex > Len(testCases)
  /\ \E created \in BOOLEAN :
       IF created
         THEN /\ \E order \in RangeOrders(DOMAIN fullResults) :
                   report' = << <<"# AppCat Test Results\n">> >>
                               \o ResultLines(fullResults, order)
              /\ pc' = "reported"
         ELSE /\ pc' = "exited"
              /\ UNCHANGED report
  /\ UNCHANGED <<tcName, baselineFile, outputFile, parsed, baselineIncidents, incidents,
                 result, resultDetails, err, runVars, testCases, tcIndex, fullResults,
                 fullIncidentsCount, fullIncidentDetails, summaryFile, runResults>>
  /\ UNCHANGED loggerVars

NextMain ==
  \/ StartTestCase
  \/ RunAppCatStage
  \/ ParseBaseline
  \/ ParseOutput
  \/ ValidateIncidents
  \/ RunResult
  \/ RecordResult
  \/ WriteReport

SpecMain == InitMain /\ [][NextMain]_vars

(***************************************************************************)
(* main with the Run of four results (message, count, details, error)      *)
(***************************************************************************)

(* what the Run of four results returns when an input of the project is    *)
(* missing or malformed: a failure tagged with the project name            *)
RunFailure(name, count) ==
  [message |-> <<>>, count |-> count, details |-> [nil |-> TRUE, rules |-> <<>>],
   err |-> <<"error for project ">> \o name]

(* and what it returns otherwise: the pass/fail message of the diff, the   *)
(* total incident count and the rule counts of the analyzer output         *)
RunSuccess(name, cur, validated, order) ==
  [message |-> RunReturn("returned", name, validated.resultDetails, "nil", order).message,
   count |-> cur.incidentsCount,
   details |-> [nil |-> FALSE, rules |-> cur.ruleIncidentDetails],
   err |-> NoError]

RunFull ==
  /\ pc = "Run"
  /\ IF appcat # "ok" \/ baselineFile.status # "ok" \/ outputFile.status # "ok"
       THEN \E count \in {-1, 0} : runResult' = RunFailure(tcName, count)
       ELSE \E orders \in ViolationOrders(outputFile.content) :
              \E baselineOrders \in ViolationOrders(baselineFile.content) :
                LET cur  == ParseAppCatOutput(outputFile, tcName, "", orders)
                    base == ParseAppCatOutput(baselineFile, tcName, "", baselineOrders)
                IN  \E order \in RangeOrders(DOMAIN cur.incidentsDetails) :
                      \E baselineOrder \in RangeOrders(DOMAIN base.incidentsDetails) :
                        LET validated == Validate(cur.incidentsDetails,
                                                  base.incidentsDetails,
                                                  order, baselineOrder)
                        IN  \E detailOrder \in RangeOrders(DOMAIN validated.resultDetails) :
                              runResult' = RunSuccess(tcName, cur, validated, detailOrder)
  /\ pc' = "RunReturned"
  /\ UNCHANGED <<tcName, baselineFile, outputFile, parsed, baselineIncidents, incidents,
                 result, resultDetails, err, actionList, appcat, analyzed, mainVars>>
  /\ UNCHANGED loggerVars

(* mutant of AggregateResult: the details map keeps the last project only *)
AggregateResultLastOnly(acc, name, r) ==
  [count |-> IF r.count >= 0 THEN acc.count + r.count ELSE acc.count,
   details |-> IF ~r.details.nil THEN (name :> r.details.rules) ELSE acc.details]

(* if resultCount >= 0 { fullIncidentsCount += resultCount }               *)
(* if resultDetails != nil { fullIncidentDetails[name] = resultDetails }   *)
AggregateResult(acc, name, r) ==
  [count |-> IF r.count >= 0 THEN acc.count + r.count ELSE acc.count,
   details |-> IF ~r.details.nil THEN Put(acc.details, name, r.details.rules)
               ELSE acc.details]

(* the rest of the loop body of the main whose Run has four results *)
RecordFullResult ==
  /\ pc = "RunReturned"
  /\ fullResults' = RecordTestResult(fullResults, tcName, runResult)
  /\ LET acc == AggregateResult([count |-> fullIncidentsCount,
                                 details |-> fullIncidentDetails], tcName, runResult)
     IN  /\ fullIncidentsCount' = acc.count
         /\ fullIncidentDetails' = acc.details
  /\ runResults' = Append(runResults, [name |-> tcName, returned |-> runResult])
  /\ tcIndex' = tcIndex + 1
  /\ pc' = "main"
  /\ UNCHANGED <<tcName, baselineFile, outputFile, parsed, baselineIncidents, incidents,
                 result, resultDetails, err, runVars, testCases, report, summaryFile>>
  /\ UNCHANGED loggerVars

(* rules[rule] for every rule of every project's details *)
SummaryRules(details) == UNION { DOMAIN details[target] : target \in DOMAIN details }

(* strings.Join(targetList, ",") *)
RECURSIVE JoinTargets(_)
JoinTargets(targetList) ==
  IF targetList = <<>> THEN <<>>
  ELSE IF Len(targetList) = 1 THEN Head(targetList)
  ELSE Head(targetList) \o <<",">> \o JoinTargets(Tail(targetList))

(* the cells of a rule's row: ",<count>" for a project whose details have  *)
(* the rule, ", " for one whose details lack it or that has no details     *)
RECURSIVE SummaryCells(_, _, _)
SummaryCells(details, rule, targetList) ==
  IF targetList = <<>> THEN <<>>
  ELSE (IF Head(targetList) \in DOMAIN details
            /\ rule \in DOMAIN details[Head(targetList)]
          THEN <<",">> \o FormatInt(details[Head(targetList)][rule])
          ELSE <<", ">>)
       \o SummaryCells(details, rule, Tail(targetList))

RECURSIVE SummaryLines(_, _, _)
SummaryLines(details, order, targetList) ==
  IF order = <<>> THEN <<>>
  ELSE << Head(order) \o SummaryCells(details, Head(order), targetList) \o <<"\n">> >>
         \o SummaryLines(details, Tail(order), targetList)

(* targetList, the names of the test cases *)
TargetList == [i \in 1..Len(testCases) |-> testCases[i].Name]

(* if fullIncidentsCount > 0 { the summary csv: os.Create (logger.Fatalf   *)
(* when it fails), the header and one row for each rule, in a range order  *)
(* of the rules }                                                          *)
WriteSummary ==
  /\ pc = "reported"
  /\ IF fullIncidentsCount > 0
       THEN \E created \in BOOLEAN :
              IF created
                THEN /\ \E order \in RangeOrders(SummaryRules(fullIncidentDetails)) :
                          summaryFile' =
                            << <<"Rule,">> \o JoinTargets(TargetList) \o <<"\n">> >>
                              \o SummaryLines(fullIncidentDetails, order, TargetList)
                     /\ pc' = "done"
                ELSE /\ pc' = "exited"
                     /\ UNCHANGED summaryFile
       ELSE /\ pc' = "done"
            /\ UNCHANGED summaryFile
  /\ UNCHANGED <<tcName, baselineFile, outputFile, parsed, baselineIncidents, incidents,
                 result, resultDetails, err, runVars, testCases, tcIndex, fullResults,
                 fullIncidentsCount, fullIncidentDetails, report, runResults>>
  /\ UNCHANGED loggerVars

NextFull ==
  \/ StartTestCase
  \/ RunFull
  \/ RecordFullResult
  \/ WriteReport
  \/ WriteSummary

SpecFull == InitMain /\ [][NextFull]_vars

(***************************************************************************)
(* package logger: Init and Get called by goroutines before main's Init    *)
(***************************************************************************)

(* var logger *log.Logger; once sync.Once; logFile *os.File *)
InitLogger ==
  /\ logger = "nil"
  /\ once = [done |-> FALSE, m |-> 0]
  /\ logFile = "nil"
  /\ goroutines = [g \in Goroutines |-> Idle]
  /\ bodyRuns = 0
  /\ tcName \in TcNames
  /\ baselineFile = [status |-> "absent", content |-> <<>>]
  /\ outputFile = [status |-> "absent", content |-> <<>>]
  /\ pc = "logger"
  /\ parsed = ParseStart
  /\ baselineIncidents = <<>>
  /\ incidents = <<>>
  /\ result = TRUE
  /\ resultDetails = <<>>
  /\ err = "nil"
  /\ NoRun
  /\ NoMain

(* an unrecovered panic of Get ends the process *)
Panicked == \E g \in Goroutines : goroutines[g].got = "panic"

(* some call of Init has returned a nil error *)
InitReturnedNil == \E g \in Goroutines : goroutines[g].initNil

LoggerUnchanged ==
  UNCHANGED <<tcName, baselineFile, outputFile, pc, parsed, baselineIncidents, incidents,
              result, resultDetails, err, runVars, mainVars>>

(* a call of Init: var err error *)
InitCall(g) ==
  /\ pc = "logger" /\ ~Panicked
  /\ goroutines[g].at = "idle"
  /\ goroutines[g].calls < MaxCalls
  /\ goroutines' = [goroutines EXCEPT ![g].at = "Do", ![g].err = "nil",
                                      ![g].calls = @ + 1]
  /\ UNCHANGED <<logger, once, logFile, bodyRuns>>
  /\ LoggerUnchanged

(* once.Do: if o.done.Load() == 0 { o.doSlow(f) } *)
OnceDo(g) ==
  /\ pc = "logger" /\ ~Panicked
  /\ goroutines[g].at = "Do"
  /\ goroutines' = [goroutines EXCEPT ![g].at =
                      IF once.done THEN "return" ELSE "doSlow"]
  /\ UNCHANGED <<logger, once, logFile, bodyRuns>>
  /\ LoggerUnchanged

(* doSlow: o.m.Lock(); defer o.m.Unlock(); if o.done.Load() == 0 { f() } *)
OnceLock(g) ==
  /\ pc = "logger" /\ ~Panicked
  /\ goroutines[g].at = "doSlow"
  /\ once.m = 0
  /\ IF once.done
       THEN /\ goroutines' = [goroutines EXCEPT ![g].at = "return"]
            /\ UNCHANGED <<once, bodyRuns>>
       ELSE /\ goroutines' = [goroutines EXCEPT ![g].at = "OpenFile"]
            /\ once' = [once EXCEPT !.m = g]
            /\ bodyRuns' = bodyRuns + 1
  /\ UNCHANGED <<logger, logFile>>
  /\ LoggerUnchanged

(* logFile, err = os.OpenFile(...); if err != nil { return } *)
OpenLogFile(g) ==
  /\ pc = "logger" /\ ~Panicked
  /\ goroutines[g].at = "OpenFile"
  /\ \E opened \in BOOLEAN :
       IF opened
         THEN /\ logFile' = "open"
              /\ goroutines' = [goroutines EXCEPT ![g].at = "New"]
         ELSE /\ logFile' = "nil"
              /\ goroutines' = [goroutines EXCEPT ![g].at = "Unlock", ![g].err = "error"]
  /\ UNCHANGED <<logger, once, bodyRuns>>
  /\ LoggerUnchanged

(* logger = log.New(multiWriter, "[GLOBAL] ", ...) *)
NewLogger(g) ==
  /\ pc = "logger" /\ ~Panicked
  /\ goroutines[g].at = "New"
  /\ logger' = "set"
  /\ goroutines' = [goroutines EXCEPT ![g].at = "Unlock"]
  /\ UNCHANGED <<once, logFile, bodyRuns>>
  /\ LoggerUnchanged

(* the deferred o.done.Store(1) and o.m.Unlock() of doSlow *)
OnceUnlock(g) ==
  /\ pc = "logger" /\ ~Panicked
  /\ goroutines[g].at = "Unlock"
  /\ once' = [done |-> TRUE, m |-> 0]
  /\ goroutines' = [goroutines EXCEPT ![g].at = "return"]
  /\ UNCHANGED <<logger, logFile, bodyRuns>>
  /\ LoggerUnchanged

(* return err *)
InitReturn(g) ==
  /\ pc = "logger" /\ ~Panicked
  /\ goroutines[g].at = "return"
  /\ goroutines' = [goroutines EXCEPT ![g].at = "idle",
                                      ![g].initNil = @ \/ goroutines[g].err = "nil"]
  /\ UNCHANGED <<logger, once, logFile, bodyRuns>>
  /\ LoggerUnchanged

(* Get: if logger == nil { panic(...) }; return logger *)
Get(g) ==
  /\ pc = "logger" /\ ~Panicked
  /\ goroutines[g].at = "idle"
  /\ goroutines[g].calls < MaxCalls
  /\ goroutines' = [goroutines EXCEPT
                      ![g].got = IF logger = "nil" THEN "panic" ELSE "logger",
                      ![g].afterNilInit = InitReturnedNil,
                      ![g].calls = @ + 1]
  /\ UNCHANGED <<logger, once, logFile, bodyRuns>>
  /\ LoggerUnchanged

NextLogger ==
  \E g \in Goroutines :
    \/ InitCall(g)
    \/ OnceDo(g)
    \/ OnceLock(g)
    \/ OpenLogFile(g)
    \/ NewLogger(g)
    \/ OnceUnlock(g)
    \/ InitReturn(g)
    \/ Get(g)

SpecLogger == InitLogger /\ [][NextLogger]_vars

(***************************************************************************)
(* Properties                                                              *)
(***************************************************************************)

Returned == pc = "returned"

ParseReturned == pc \in {"baselineParsed", "outputParsed", "returned"}

(* the keys whose entry of the details map carries a tag *)
TaggedKeys(details, tag) == { k \in DOMAIN details : Head(details[k]) = tag }

Keys(m) == DOMAIN m

ChangedSet(cur, base) ==
  { k \in Keys(cur) \cap Keys(base) : cur[k].Message # base[k].Message }

(* C1: when RunValidate has returned, the keys with a [NEW] entry are      *)
(* exactly the keys of the current set that are absent from the baseline,  *)
(* and the entry of each is "[NEW] : " followed by the key.                *)
C1_NewExactly ==
  Returned =>
    /\ TaggedKeys(resultDetails, NewTag) = Keys(incidents) \ Keys(baselineIncidents)
    /\ \A k \in Keys(incidents) \ Keys(baselineIncidents) :
         resultDetails[k] = <<NewTag>> \o k

C1_Witness ==
  /\ Returned
  /\ Keys(incidents) \ Keys(baselineIncidents) # {}
  /\ Keys(baselineIncidents) # {}

(* C2: when RunValidate has returned, the keys with a [MISS] entry are     *)
(* exactly the keys of the baseline that are absent from the current set,  *)
(* and the entry of each is "[MISS]: " followed by the key.                *)
C2_MissExactly ==
  Returned =>
    /\ TaggedKeys(resultDetails, MissTag) = Keys(baselineIncidents) \ Keys(incidents)
    /\ \A k \in Keys(baselineIncidents) \ Keys(incidents) :
         resultDetails[k] = <<MissTag>> \o k

C2_Witness ==
  /\ Returned
  /\ Keys(baselineIncidents) \ Keys(incidents) # {}
  /\ Keys(incidents) # {}

(* C3: a key of both sets has a [WRONG] entry if and only if the two       *)
(* messages differ; with equal messages it has no entry at all, whatever   *)
(* the code snippets, the variables and the raw uris are.                  *)
C3_ChangedIffMessage ==
  Returned =>
    /\ TaggedKeys(resultDetails, WrongTag) = ChangedSet(incidents, baselineIncidents)
    /\ \A k \in Keys(incidents) \cap Keys(baselineIncidents) :
         incidents[k].Message = baselineIncidents[k].Message
           => k \notin DOMAIN resultDetails

C3_Witness ==
  /\ Returned
  /\ \E k \in Keys(incidents) \cap Keys(baselineIncidents) :
       /\ incidents[k].Message = baselineIncidents[k].Message
       /\ incidents[k].CodeSnip # baselineIncidents[k].CodeSnip
       /\ incidents[k].Variables # baselineIncidents[k].Variables
       /\ incidents[k].Uri # baselineIncidents[k].Uri
       /\ k \notin DOMAIN resultDetails

(* C4: the boolean RunValidate returns is true if and only if no key is    *)
(* new, changed or missing, and if and only if the details map is empty.   *)
C4_ResultIffNoDetails ==
  Returned =>
    /\ result = ( /\ Keys(incidents) \ Keys(baselineIncidents) = {}
                  /\ Keys(baselineIncidents) \ Keys(incidents) = {}
                  /\ ChangedSet(incidents, baselineIncidents) = {} )
    /\ result = (DOMAIN resultDetails = {})

C4_Witness ==
  /\ Returned
  /\ result = FALSE
  /\ DOMAIN resultDetails # {}
  /\ TaggedKeys(resultDetails, MissTag) = DOMAIN resultDetails

(* C5: when the current set and the baseline are the same normalized set,  *)
(* RunValidate returns true and an empty details map.                      *)
C5_DiffSelf ==
  (Returned /\ incidents = baselineIncidents) =>
    /\ result = TRUE
    /\ DOMAIN resultDetails = {}

C5_Witness ==
  /\ Returned
  /\ incidents = baselineIncidents
  /\ Keys(incidents) # {}

(* C6: validating with the two sets exchanged, in any range order, reports *)
(* as missing the keys reported new here, as new the keys reported missing *)
(* here, and as changed the same keys.                                     *)
C6_SwapNewMiss ==
  Returned =>
    \A order \in RangeOrders(Keys(baselineIncidents)) :
      \A baselineOrder \in RangeOrders(Keys(incidents)) :
        LET swapped == Validate(baselineIncidents, incidents, order, baselineOrder)
        IN  /\ TaggedKeys(swapped.resultDetails, MissTag)
                 = TaggedKeys(resultDetails, NewTag)
            /\ TaggedKeys(swapped.resultDetails, NewTag)
                 = TaggedKeys(resultDetails, MissTag)
            /\ TaggedKeys(swapped.resultDetails, WrongTag)
                 = TaggedKeys(resultDetails, WrongTag)

C6_Witness ==
  /\ Returned
  /\ TaggedKeys(resultDetails, NewTag) # {}
  /\ TaggedKeys(resultDetails, MissTag) # {}

RECURSIVE SumOver(_, _)
SumOver(m, S) ==
  IF S = {} THEN 0
  ELSE LET x == CHOOSE y \in S : TRUE IN m[x] + SumOver(m, S \ {x})

(* the 0-based indices at which name occurs in uri *)
Occurrences(uri, name) ==
  { i \in 0..(Len(uri) - Len(name)) : SubSeq(uri, i + 1, i + Len(name)) = name }

FirstOccurrence(uri, name) ==
  CHOOSE i \in Occurrences(uri, name) : \A j \in Occurrences(uri, name) : i <= j

(* the key a retained incident has for the project of the test case *)
KeyOf(vIncident) == IncidentKey(vIncident, TempPath(vIncident.Uri, tcName))

(* the first iteration of the parse that produced the key *)
FirstVisit(visited, key) ==
  CHOOSE i \in 1..Len(visited) :
    /\ visited[i].key = key
    /\ \A j \in 1..(i - 1) : visited[j].key # key

(* C7: a returned parse has a total equal to the sum of its per-rule       *)
(* counts, and every retained incident is stored under its own key, so no  *)
(* two retained incidents have the same key.                               *)
C7_TotalAndUniqueKeys ==
  ParseReturned =>
    /\ parsed.incidentsCount
         = SumOver(parsed.ruleIncidentDetails, DOMAIN parsed.ruleIncidentDetails)
    /\ \A k \in DOMAIN parsed.incidentsDetails : KeyOf(parsed.incidentsDetails[k]) = k
    /\ \A k1, k2 \in DOMAIN parsed.incidentsDetails :
         k1 # k2 => KeyOf(parsed.incidentsDetails[k1]) # KeyOf(parsed.incidentsDetails[k2])

C7_Witness ==
  /\ ParseReturned
  /\ parsed.incidentsCount = 2
  /\ \E rule \in DOMAIN parsed.ruleIncidentDetails : parsed.ruleIncidentDetails[rule] = 2
  /\ Cardinality(DOMAIN parsed.incidentsDetails) = 1

(* C8: of the incidents of a document that produce the same key, the one   *)
(* the parse visits first is the one retained, and the parse returns a nil *)
(* error.                                                                  *)
C8_FirstKept ==
  ParseReturned =>
    /\ parsed.err = "nil"
    /\ \A i \in 1..Len(parsed.visited) :
         LET key == parsed.visited[i].key
         IN  /\ key \in DOMAIN parsed.incidentsDetails
             /\ parsed.incidentsDetails[key]
                  = parsed.visited[FirstVisit(parsed.visited, key)].vIncident

C8_Witness ==
  /\ ParseReturned
  /\ \E i, j \in 1..Len(parsed.visited) :
       /\ i < j
       /\ parsed.visited[i].key = parsed.visited[j].key
       /\ parsed.visited[i].vIncident.Message # parsed.visited[j].vIncident.Message
       /\ parsed.incidentsDetails[parsed.visited[i].key].Message
            = parsed.visited[i].vIncident.Message
       /\ parsed.duplicates # <<>>

(* C9: the key of every incident a parse visits is ruleSet, rule, location *)
(* and line number joined by "-", the location being the uri from the      *)
(* first occurrence of the project name on, and the whole uri when the     *)
(* project name does not occur in it.                                      *)
C9_KeyFormat ==
  ParseReturned =>
    \A i \in 1..Len(parsed.visited) :
      LET v   == parsed.visited[i].vIncident
          loc == IF Occurrences(v.Uri, tcName) = {} THEN v.Uri
                 ELSE SubSeq(v.Uri, FirstOccurrence(v.Uri, tcName) + 1, Len(v.Uri))
      IN  parsed.visited[i].key
            = v.RuleSet \o <<"-">> \o v.Rule \o <<"-">> \o loc \o <<"-">>
                \o FormatInt(v.LineNumber)

C9_Witness ==
  /\ ParseReturned
  /\ \E i, j \in 1..Len(parsed.visited) :
       /\ Cardinality(Occurrences(parsed.visited[i].vIncident.Uri, tcName)) = 2
       /\ Occurrences(parsed.visited[j].vIncident.Uri, tcName) = {}
       /\ parsed.visited[j].key
            = <<"s", "-", "r", "-", "a", "/", "p", "/", "y", "-", "0">>

(* C10, as the specification states it: the location in the key starts     *)
(* right after the first occurrence of the project name.                   *)
C10_LocationAfterName ==
  ParseReturned =>
    \A i \in 1..Len(parsed.visited) :
      LET v == parsed.visited[i].vIncident
      IN  Occurrences(v.Uri, tcName) # {} =>
            parsed.visited[i].tempPath
              = SubSeq(v.Uri, FirstOccurrence(v.Uri, tcName) + Len(tcName) + 1, Len(v.Uri))

(* C10, amended: only the part of the uri before the first occurrence of   *)
(* the project name is removed; the location in the key begins with the    *)
(* project name.                                                           *)
C10_LocationFromName ==
  ParseReturned =>
    \A i \in 1..Len(parsed.visited) :
      LET v       == parsed.visited[i].vIncident
          loc     == parsed.visited[i].tempPath
          removed == Len(v.Uri) - Len(loc)
      IN  Occurrences(v.Uri, tcName) # {} =>
            /\ removed = FirstOccurrence(v.Uri, tcName)
            /\ SubSeq(v.Uri, 1, removed) \o loc = v.Uri
            /\ SubSeq(loc, 1, Len(tcName)) = tcName
            /\ parsed.visited[i].key = IncidentKey(v, loc)

C10_Witness ==
  /\ ParseReturned
  /\ \E i \in 1..Len(parsed.visited) :
       /\ Occurrences(parsed.visited[i].vIncident.Uri, tcName) # {}
       /\ FirstOccurrence(parsed.visited[i].vIncident.Uri, tcName) = 2
       /\ parsed.visited[i].tempPath = <<"p", "j", "/", "p", "j", "/", "x">>

(* the incident of a document that holds one finding *)
OnlyIncident(file) == file.content[1].Violations[<<"r">>][1]

(* the two files hold root1 + tc.Name + rest and root2 + tc.Name + rest *)
SameFindingUnder(root1, root2) ==
  \E rest \in Rests :
    /\ OnlyIncident(baselineFile).Uri = root1 \o tcName \o rest
    /\ OnlyIncident(outputFile).Uri = root2 \o tcName \o rest

(* the project name first occurs in root + name where root ends *)
CleanRoot(root) == FirstOccurrence(root \o tcName, tcName) = Len(root)

(* C11, as the specification states it: whatever the two roots are, the    *)
(* same finding has the same key in both runs, and RunValidate reports it  *)
(* neither as new nor as missing.                                          *)
C11_AnyRoots ==
  Returned =>
    \A root1 \in Roots, root2 \in Roots :
      SameFindingUnder(root1, root2) =>
        /\ Keys(incidents) = Keys(baselineIncidents)
        /\ TaggedKeys(resultDetails, NewTag) = {}
        /\ TaggedKeys(resultDetails, MissTag) = {}

(* C11, amended: for two roots before whose end the project name does not  *)
(* occur, the finding has the same key in both runs and is reported        *)
(* neither as new nor as missing.                                          *)
C11_CleanRoots ==
  Returned =>
    \A root1 \in Roots, root2 \in Roots :
      (SameFindingUnder(root1, root2) /\ CleanRoot(root1) /\ CleanRoot(root2)) =>
        /\ Keys(incidents) = Keys(baselineIncidents)
        /\ TaggedKeys(resultDetails, NewTag) = {}
        /\ TaggedKeys(resultDetails, MissTag) = {}

C11_Witness ==
  /\ Returned
  /\ \E root1 \in Roots, root2 \in Roots :
       /\ root1 # root2
       /\ SameFindingUnder(root1, root2) /\ CleanRoot(root1) /\ CleanRoot(root2)
       /\ OnlyIncident(baselineFile).Uri # OnlyIncident(outputFile).Uri
       /\ Keys(incidents) = Keys(baselineIncidents)
       /\ Keys(incidents) # {}

(* the (ruleSet, rule, normalizedLocation, lineNumber) of a visited incident *)
KeyTuple(visit) ==
  <<visit.vIncident.RuleSet, visit.vIncident.Rule, visit.tempPath,
    visit.vIncident.LineNumber>>

(* C12, as the specification states it: two incidents of a parse whose     *)
(* (ruleSet, rule, normalizedLocation, lineNumber) differ never have the   *)
(* same IncidentKey.                                                       *)
C12_DistinctTuplesDistinctKeys ==
  ParseReturned =>
    \A i, j \in 1..Len(parsed.visited) :
      KeyTuple(parsed.visited[i]) # KeyTuple(parsed.visited[j])
        => parsed.visited[i].key # parsed.visited[j].key

(* the document the last parse read *)
ParsedFile == IF pc = "baselineParsed" THEN baselineFile ELSE outputFile

(* C13: parsing the same document again for the same project, in whatever  *)
(* order the violations maps are ranged over, yields the same set of       *)
(* IncidentKeys.                                                           *)
C13_SameKeysOnReparse ==
  ParseReturned =>
    \A orders \in ViolationOrders(ParsedFile.content) :
      DOMAIN ParseAppCatOutput(ParsedFile, tcName, "", orders).incidentsDetails
        = DOMAIN parsed.incidentsDetails

C13_Witness ==
  /\ ParseReturned
  /\ Cardinality(ViolationOrders(ParsedFile.content)) > 1
  /\ Cardinality(DOMAIN parsed.incidentsDetails) > 1

(* C14, as the specification states it: in whatever order the violations   *)
(* maps of a document are ranged over, the parse has the same per-rule     *)
(* counts, the same total and the same incident retained under each key.   *)
C14_OrderIndependentParse ==
  ParseReturned =>
    \A orders \in ViolationOrders(ParsedFile.content) :
      LET r == ParseAppCatOutput(ParsedFile, tcName, "", orders)
      IN  /\ r.incidentsCount = parsed.incidentsCount
          /\ r.ruleIncidentDetails = parsed.ruleIncidentDetails
          /\ r.incidentsDetails = parsed.incidentsDetails

(* C15: in whatever orders the current and the baseline map are ranged     *)
(* over, RunValidate returns the same pass/fail flag and the same details. *)
C15_OrderIndependentDiff ==
  Returned =>
    \A order \in RangeOrders(DOMAIN incidents) :
      \A baselineOrder \in RangeOrders(DOMAIN baselineIncidents) :
        Validate(incidents, baselineIncidents, order, baselineOrder)
          = [result |-> result, resultDetails |-> resultDetails]

C15_Witness ==
  /\ Returned
  /\ Cardinality(RangeOrders(DOMAIN incidents)) > 1
  /\ Cardinality(TaggedKeys(resultDetails, NewTag)) > 1

(* C16, as the specification states it: once ParseAppCatOutput has been    *)
(* called on a baseline document that is absent, unreadable or not         *)
(* well-formed, the call has returned a non-nil error with no incident     *)
(* map, no rule counts and a zero total.                                   *)
C16_ParseReturnsError ==
  (pc # "RunValidate" /\ baselineFile.status # "ok") =>
    /\ pc # "exited"
    /\ parsed.err # "nil"
    /\ parsed.incidentsDetails = <<>>
    /\ parsed.ruleIncidentDetails = <<>>
    /\ parsed.incidentsCount = 0

(* C20: RunValidate returns only when both documents were parsed, and then *)
(* with a nil error, whatever the mismatches; when both documents can be   *)
(* parsed it does not end in any other way.                                *)
C20_NilErrorWhenBothParse ==
  /\ Returned =>
       /\ err = "nil"
       /\ baselineFile.status = "ok" /\ outputFile.status = "ok"
  /\ (baselineFile.status = "ok" /\ outputFile.status = "ok") => pc # "exited"
  /\ err # "nil" => (baselineFile.status # "ok" \/ outputFile.status # "ok")

C20_Witness ==
  /\ Returned
  /\ err = "nil"
  /\ ~result
  /\ TaggedKeys(resultDetails, NewTag) # {}
  /\ TaggedKeys(resultDetails, MissTag) # {}

(* main or the process has ended *)
Ended == pc \in {"reported", "exited"}

(* the results file could not be created *)
ReportCreateFailed == pc = "exited" /\ tcIndex > Len(testCases)

(* appcat.exe ran for every target, every document is either fine or       *)
(* absent, and one at least is absent                                      *)
OnlyMissingDocuments ==
  /\ \A i \in 1..Len(testCases) :
       /\ testCases[i].appcat = "ok"
       /\ testCases[i].baselineFile.status \in {"ok", "absent"}
       /\ testCases[i].outputFile.status \in {"ok", "absent"}
  /\ \E i \in 1..Len(testCases) :
       \/ testCases[i].baselineFile.status = "absent"
       \/ testCases[i].outputFile.status = "absent"

(* C17, as the specification states it: when documents are missing, main   *)
(* still goes through every project of the target list and, unless the     *)
(* results file cannot be created, writes the report.                      *)
C17_MissingInputFailsOnlyProject ==
  (Ended /\ OnlyMissingDocuments /\ ~ReportCreateFailed) =>
    /\ report # "none"
    /\ \A i \in 1..Len(testCases) : testCases[i].Name \in DOMAIN fullResults

(* C18, as the specification states it: when the Run of a project returned *)
(* an error, the result main has recorded for the project is "Error: "     *)
(* followed by the error, not an empty or a pass result.                   *)
C18_ErrorRecorded ==
  (pc = "main" /\ tcIndex > 1 /\ runResult.err # NoError) =>
    /\ tcName \in DOMAIN fullResults
    /\ fullResults[tcName] = <<"Error: ">> \o runResult.err

(* C19, as the specification states it: once RunAnalyze has been called    *)
(* with output.yaml absent, it has returned a non-nil error to Run.        *)
C19_AnalyzeReturnsError ==
  ( /\ ActionAnalyze \in actionList
    /\ outputFile.status = "absent"
    /\ ~(ActionRun \in actionList /\ appcat # "ok")
    /\ pc \notin {"Run", "RunAnalyze"} ) =>
    /\ pc # "exited"
    /\ analyzed.err # "nil"

(* the rules of a rule-set whose incident list is not empty *)
NonEmptyRules(section) ==
  { x \in DOMAIN section.Violations : section.Violations[x] # <<>> }

(* a document without its empty incident lists and without the rule-sets   *)
(* that are then left with no violations                                   *)
RECURSIVE StripDocument(_)
StripDocument(yamlContent) ==
  IF yamlContent = <<>> THEN <<>>
  ELSE (IF NonEmptyRules(Head(yamlContent)) = {} THEN <<>>
        ELSE << [Name |-> Head(yamlContent).Name,
                 Violations |-> [x \in NonEmptyRules(Head(yamlContent)) |->
                                   Head(yamlContent).Violations[x]]] >>)
       \o StripDocument(Tail(yamlContent))

(* C21: a parse returns a nil error and the total, the rule counts and the *)
(* incident map of the document without its rule-sets with no violations   *)
(* and its empty incident lists; a document with nothing else parses to    *)
(* total 0, no rule counts and no incidents, and two such documents pass   *)
(* RunValidate with no details.                                            *)
C21_EmptyAddsNothing ==
  /\ ParseReturned =>
       /\ parsed.err = "nil"
       /\ \A orders \in ViolationOrders(StripDocument(ParsedFile.content)) :
            LET r == ParseAppCatOutput([status |-> "ok",
                                        content |-> StripDocument(ParsedFile.content)],
                                       tcName, "", orders)
            IN  /\ r.incidentsCount = parsed.incidentsCount
                /\ r.ruleIncidentDetails = parsed.ruleIncidentDetails
                /\ r.incidentsDetails = parsed.incidentsDetails
       /\ StripDocument(ParsedFile.content) = <<>> =>
            /\ parsed.incidentsCount = 0
            /\ parsed.ruleIncidentDetails = <<>>
            /\ parsed.incidentsDetails = <<>>
  /\ ( /\ Returned
       /\ StripDocument(baselineFile.content) = <<>>
       /\ StripDocument(outputFile.content) = <<>> ) =>
       result /\ resultDetails = <<>>

C21_Witness ==
  /\ Returned
  /\ result
  /\ outputFile.content # <<>>
  /\ StripDocument(outputFile.content) = <<>>
  /\ \E si \in 1..Len(outputFile.content) :
       DOMAIN outputFile.content[si].Violations = {}
  /\ \E si \in 1..Len(outputFile.content) :
       \E x \in DOMAIN outputFile.content[si].Violations :
         outputFile.content[si].Violations[x] = <<>>

(* a project's count for a rule, 0 when it reports no occurrence of it *)
CountOrZero(details, rule, target) ==
  IF target \in DOMAIN details /\ rule \in DOMAIN details[target]
    THEN details[target][rule]
    ELSE 0

RECURSIVE MatrixCells(_, _, _)
MatrixCells(details, rule, targetList) ==
  IF targetList = <<>> THEN <<>>
  ELSE <<",">> \o FormatInt(CountOrZero(details, rule, Head(targetList)))
         \o MatrixCells(details, rule, Tail(targetList))

(* C22, as the specification states it: the summary main has written has   *)
(* a header with one column for each project of the target list and one    *)
(* row for each rule seen in any project, the cell of a rule and a project *)
(* being the project's count for the rule, or 0 when it has none.          *)
C22_SummaryMatrix ==
  (pc = "done" /\ fullIncidentsCount > 0) =>
    /\ Len(summaryFile) = 1 + Cardinality(SummaryRules(fullIncidentDetails))
    /\ summaryFile[1] = <<"Rule,">> \o JoinTargets(TargetList) \o <<"\n">>
    /\ { summaryFile[i] : i \in 2..Len(summaryFile) }
         = { rule \o MatrixCells(fullIncidentDetails, rule, TargetList) \o <<"\n">> :
               rule \in SummaryRules(fullIncidentDetails) }

(* the accumulation of the returned results taken in an order *)
RECURSIVE Aggregated(_, _)
Aggregated(acc, order) ==
  IF order = <<>> THEN acc
  ELSE Aggregated(AggregateResult(acc, runResults[Head(order)].name,
                                  runResults[Head(order)].returned),
                  Tail(order))

(* C23: between two test cases, the grand total and the rule counts main   *)
(* holds for each project are what the accumulation of the results         *)
(* returned so far gives in every order, and the rule counts recorded for  *)
(* a project are still the ones its own Run returned.                      *)
C23_AggregationOrderIndependent ==
  pc = "main" =>
    /\ \A order \in RangeOrders(1..Len(runResults)) :
         Aggregated([count |-> 0, details |-> <<>>], order)
           = [count |-> fullIncidentsCount, details |-> fullIncidentDetails]
    /\ \A i \in 1..Len(runResults) :
         ~runResults[i].returned.details.nil =>
           /\ runResults[i].name \in DOMAIN fullIncidentDetails
           /\ fullIncidentDetails[runResults[i].name] = runResults[i].returned.details.rules

C23_Witness ==
  /\ pc = "main"
  /\ Len(runResults) = 2
  /\ \A i \in 1..2 : runResults[i].returned.count > 0
  /\ runResults[1].returned.details.rules # runResults[2].returned.details.rules
  /\ fullIncidentsCount = runResults[1].returned.count + runResults[2].returned.count
  /\ Cardinality(DOMAIN fullIncidentDetails) = 2

(* the keys the diff of the two parsed maps finds new, missing or changed *)
Mismatched(cur, base) ==
  (Keys(cur) \ Keys(base)) \cup (Keys(base) \ Keys(cur)) \cup ChangedSet(cur, base)

(* C24: when Run has returned after a validate stage, it returned a nil    *)
(* error and, when the diff found no new, missing or changed key, the PASS *)
(* line of the project; otherwise the FAIL line whose details block is the *)
(* entries of exactly the new, missing and changed keys, one each, in some *)
(* order, with no entry for a matched key.                                 *)
C24_RunPassFail ==
  (pc = "RunReturned" /\ ActionValidate \in actionList) =>
    /\ runResult.err = NoError
    /\ DOMAIN resultDetails = Mismatched(incidents, baselineIncidents)
    /\ IF Mismatched(incidents, baselineIncidents) = {}
         THEN runResult.message = PassMessage(tcName)
         ELSE \E order \in RangeOrders(Mismatched(incidents, baselineIncidents)) :
                runResult.message
                  = <<"- [ ] :x:", " <b>">> \o tcName \o <<"</b>. \n\n">>
                      \o <<"  <details>\n  <summary> Details </summary>\n\n  ">>
                      \o Details(resultDetails, order)
                      \o <<"\n\n</details>">> \o <<"\n">>

C24_Witness ==
  /\ pc = "RunReturned"
  /\ ActionValidate \in actionList
  /\ Mismatched(incidents, baselineIncidents) # {}
  /\ (Keys(incidents) \cap Keys(baselineIncidents))
       \ ChangedSet(incidents, baselineIncidents) # {}
  /\ runResult.message # PassMessage(tcName)

(* RunAnalyze has returned to Run *)
Analyzed ==
  ActionAnalyze \in actionList /\ pc \notin {"Run", "RunAnalyze", "exited"}

(* C25, as the specification states it: after a parse with a persist path, *)
(* the incident records on disk are as many as the incidents counted, none *)
(* having been overwritten by the record of another incident.              *)
C25_OneRecordPerIncident ==
  Analyzed => Cardinality(DOMAIN analyzed.written) = analyzed.totalIncidents

(* the raw incidents of the text of a document, in document order of the  *)
(* one rule of its one rule-set                                            *)
RawList(file) == file.raw[1].Violations[<<"r">>]

(* C26, as the specification states it: once the analyzer output has been  *)
(* parsed, whether its incidents have a lineNumber that is an integer, is  *)
(* absent or is no integer, the parse has returned with a nil error, every *)
(* incident is counted, and an incident without an integer lineNumber is   *)
(* keyed with the unspecified line number 0.                               *)
C26_LineNumberTolerated ==
  pc \in {"outputParsed", "returned", "exited"} =>
    /\ pc # "exited"
    /\ pc = "outputParsed" =>
         /\ parsed.err = "nil"
         /\ parsed.incidentsCount = Len(RawList(outputFile))
         /\ \A i \in 1..Len(RawList(outputFile)) :
              RawList(outputFile)[i].LineNumber.kind # "int" =>
                /\ parsed.visited[i].vIncident.LineNumber = 0
                /\ parsed.visited[i].key \in DOMAIN parsed.incidentsDetails

(* the number of incidents a document lists under a rule name, over all   *)
(* of its rule-sets                                                        *)
ListedUnder(content, rule) ==
  SumOver([si \in 1..Len(content) |->
             IF rule \in DOMAIN content[si].Violations
               THEN Len(content[si].Violations[rule]) ELSE 0],
          1..Len(content))

RulesOf(content) ==
  UNION { DOMAIN content[si].Violations : si \in 1..Len(content) }

(* C27: a returned parse has a total equal to the number of keys of its    *)
(* normalized set plus the number of duplicate events, so the total is     *)
(* never smaller than the number of keys, and the count of a rule is the   *)
(* number of incidents the document lists under that rule name over all    *)
(* its rule-sets.                                                          *)
C27_TotalKeysPlusDuplicates ==
  ParseReturned =>
    /\ parsed.incidentsCount
         = Cardinality(DOMAIN parsed.incidentsDetails) + Len(parsed.duplicates)
    /\ parsed.incidentsCount >= Cardinality(DOMAIN parsed.incidentsDetails)
    /\ DOMAIN parsed.ruleIncidentDetails
         = { rule \in RulesOf(ParsedFile.content) :
               ListedUnder(ParsedFile.content, rule) > 0 }
    /\ \A rule \in DOMAIN parsed.ruleIncidentDetails :
         parsed.ruleIncidentDetails[rule] = ListedUnder(ParsedFile.content, rule)

C27_Witness ==
  /\ ParseReturned
  /\ Len(parsed.duplicates) = 1
  /\ parsed.incidentsCount = 2
  /\ Len(ParsedFile.content) = 2
  /\ \E rule \in DOMAIN parsed.ruleIncidentDetails :
       /\ parsed.ruleIncidentDetails[rule] = 2
       /\ \A si \in 1..2 : rule \in DOMAIN ParsedFile.content[si].Violations

(* the keys of both sets whose two messages are equal *)
MatchedSet(cur, base) ==
  { k \in Keys(cur) \cap Keys(base) : cur[k].Message = base[k].Message }

(* in how many of the four classes of a returned diff a key is *)
ClassesOf(k) ==
  (IF k \in MatchedSet(incidents, baselineIncidents) THEN 1 ELSE 0)
    + (IF k \in TaggedKeys(resultDetails, NewTag) THEN 1 ELSE 0)
    + (IF k \in TaggedKeys(resultDetails, WrongTag) THEN 1 ELSE 0)
    + (IF k \in TaggedKeys(resultDetails, MissTag) THEN 1 ELSE 0)

(* C28: when RunValidate has returned, every key of the current set or the *)
(* baseline is in exactly one of matched, new, changed and missing, the    *)
(* details map has an entry for exactly the keys that are not matched, and *)
(* the number of entries plus the number of matched keys is the number of  *)
(* keys of the union.                                                      *)
C28_DiffPartitions ==
  Returned =>
    LET union == Keys(incidents) \cup Keys(baselineIncidents)
    IN  /\ \A k \in union : ClassesOf(k) = 1
        /\ DOMAIN resultDetails = union \ MatchedSet(incidents, baselineIncidents)
        /\ Cardinality(DOMAIN resultDetails)
             + Cardinality(MatchedSet(incidents, baselineIncidents))
             = Cardinality(union)

C28_Witness ==
  /\ Returned
  /\ Cardinality(Keys(incidents) \cup Keys(baselineIncidents)) = 2
  /\ Cardinality(DOMAIN resultDetails) = 2
  /\ TaggedKeys(resultDetails, MissTag) # {}
  /\ TaggedKeys(resultDetails, NewTag) # {}

(* a step of Run keeps the order run, analyze, validate: a stage is        *)
(* entered only from an earlier position and only when its action is in    *)
(* the action list, the analysis changes only in the analyze stage, and    *)
(* Run without a validate stage returns "passed" and a nil error           *)
StagesInOrder ==
  /\ pc' = "RunAnalyze" => pc = "Run" /\ ActionAnalyze \in actionList
  /\ (pc' = "RunValidate" /\ pc # "RunValidate")
       => pc \in {"Run", "RunAnalyze"} /\ ActionValidate \in actionList
  /\ pc' = "validateSkipped"
       => pc \in {"Run", "RunAnalyze"} /\ ActionValidate \notin actionList
  /\ pc = "RunAnalyze" => ActionAnalyze \in actionList
  /\ analyzed' # analyzed => pc = "RunAnalyze"
  /\ (pc = "Run" /\ ActionRun \notin actionList) => pc' # "exited"
  /\ (pc = "validateSkipped" /\ pc' = "RunReturned")
       => runResult' = [message |-> <<"passed">>, err |-> NoError]
  /\ actionList' = actionList

(* a step in which the stage Run is in ends without completing *)
StageFailed ==
  /\ pc \in {"Run", "RunAnalyze", "RunValidate", "baselineParsed"}
  /\ pc' \notin {"RunAnalyze", "RunValidate", "validateSkipped", "baselineParsed",
                 "outputParsed"}

C30_GetAfterNilInit ==
  /\ bodyRuns <= 1
  /\ \A g \in Goroutines :
       /\ (goroutines[g].got = "logger") => logger = "set"
       /\ (goroutines[g].got # "none" /\ goroutines[g].afterNilInit)
            => goroutines[g].got = "logger"

====
